---- MODULE Spec2Model ----
(***************************************************************************)
(* lean_tui: the live terminal dashboard.  The model follows src/lib.rs    *)
(* (the FFI surface initialize / update / trace / error / free and the     *)
(* render thread spawned by initialize) and the fold rules shared with     *)
(* src/terminal/terminal_handler.rs (TerminalData).                        *)
(*                                                                         *)
(* f64 times and values are modelled by small integers; a string is a      *)
(* sequence of one-character strings.                                      *)
(***************************************************************************)
EXTENDS Integers, Sequences, FiniteSets, TLC

(***************************************************************************)
(* Bounds of the model.                                                    *)
(***************************************************************************)
\* posts (update / trace / error calls) over one session
MaxPosts == 2
\* calls of free over one session
MaxFrees == 2
\* equity points carried by one snapshot of FoldSpec
MaxPoints == 2
\* entries of the orders mapping carried by one snapshot of OrdersSpec
MaxOrders == 2
\* length of the texts over "a" and "\n" posted in LogSpec
MaxText == 2
\* rows of a region of the layout: the log pane, the order columns
MaxHeight == 4

Callers == {"c1", "c2"}

(***************************************************************************)
(* Messages (enum Message) and their payloads.                             *)
(***************************************************************************)
NoOrders == <<>>

Log(text, error) ==
    [kind |-> "Log", text |-> text, error |-> error,
     charts |-> "None", points |-> <<>>, hasOrders |-> FALSE, orders |-> NoOrders]

Packet(charts, points, hasOrders, orders) ==
    [kind |-> "Packet", text |-> <<>>, error |-> FALSE,
     charts |-> charts, points |-> points, hasOrders |-> hasOrders, orders |-> orders]

Stop ==
    [kind |-> "Stop", text |-> <<>>, error |-> FALSE,
     charts |-> "None", points |-> <<>>, hasOrders |-> FALSE, orders |-> NoOrders]

\* model::Order, reduced to the five labels its into_spans produces
MkOrder(k) ==
    [time |-> <<"time", k>>, type |-> <<"type", k>>, side |-> <<"side", k>>,
     qty |-> <<"qty", k>>, symbol |-> <<"symbol", k>>]

into_spans(order) ==
    <<order.time, order.type, order.side, order.qty, order.symbol>>

(***************************************************************************)
(* str::lines as Message::Log uses it: split on "\n", no trailing empty    *)
(* line, and a "\r" directly before the "\n" belongs to the line ending.   *)
(***************************************************************************)
FirstNewline(text) ==
    IF \E i \in 1..Len(text) : text[i] = "\n"
    THEN CHOOSE i \in 1..Len(text) :
            text[i] = "\n" /\ \A j \in 1..(i - 1) : text[j] # "\n"
    ELSE 0

\* variant: the text is one entry, whatever line endings it holds
linesMutantNoSplit(text) == IF text = <<>> THEN <<>> ELSE <<text>>

\* a line that ended in "\n", without a "\r" that came directly before it
StripCr(line) ==
    IF line # <<>> /\ line[Len(line)] = "\r" THEN SubSeq(line, 1, Len(line) - 1) ELSE line

RECURSIVE lines(_)
lines(text) ==
    IF text = <<>> THEN <<>>
    ELSE LET i == FirstNewline(text)
         IN  IF i = 0 THEN <<text>>
             ELSE <<StripCr(SubSeq(text, 1, i - 1))>> \o lines(SubSeq(text, i + 1, Len(text)))

RECURSIVE PushLines(_, _, _)
PushLines(logs0, ls, error) ==
    IF ls = <<>> THEN logs0
    ELSE PushLines(Append(logs0, [line |-> Head(ls), error |-> error]), Tail(ls), error)

\* Message::Log arm
FoldLog(logs0, text, error) == PushLines(logs0, lines(text), error)

(***************************************************************************)
(* The equity fold of Message::Packet: filter, push, sort_by time, dedup.  *)
(***************************************************************************)
\* variant: the filter written with >= keeps a point of value 0
KeepPointMutantGE(p) == p[2] >= 0

\* .filter(|(_, y)| y > &0f64)
KeepPoint(p) == p[2] > 0

RECURSIVE new_points(_)
new_points(values) ==
    IF values = <<>> THEN <<>>
    ELSE IF KeepPoint(Head(values))
         THEN <<Head(values)>> \o new_points(Tail(values))
         ELSE new_points(Tail(values))

\* insert p behind every element whose time is not greater (a stable sort)
RECURSIVE InsertByTime(_, _)
InsertByTime(sorted, p) ==
    IF sorted = <<>> THEN <<p>>
    ELSE IF Head(sorted)[1] <= p[1]
         THEN <<Head(sorted)>> \o InsertByTime(Tail(sorted), p)
         ELSE <<p>> \o sorted

RECURSIVE SortFrom(_, _)
SortFrom(sorted, rest) ==
    IF rest = <<>> THEN sorted
    ELSE SortFrom(InsertByTime(sorted, Head(rest)), Tail(rest))

\* variant: the sort left out
SortByTimeMutantNoSort(s) == s

\* equity_data.sort_by(|a, b| a.0.partial_cmp(&b.0).unwrap())
SortByTime(s) == SortFrom(<<>>, s)

\* Vec::dedup: drops an element equal to the one just before it
RECURSIVE dedup(_)
dedup(s) ==
    IF Len(s) < 2 THEN s
    ELSE IF s[1] = s[2] THEN dedup(Tail(s))
         ELSE <<s[1]>> \o dedup(Tail(s))

\* variant: the snapshot's points replace the series instead of being merged into it
FoldEquityMutantReplace(equity, values) == dedup(SortByTime(new_points(values)))

\* for point in new_points { equity_data.push(point) }; sort_by; dedup
FoldEquity(equity, values) == dedup(SortByTime(equity \o new_points(values)))

(***************************************************************************)
(* The orders fold of Message::Packet.                                     *)
(***************************************************************************)
Digits == {"0", "1", "2", "3", "4", "5", "6", "7", "8", "9"}

DigitVal(c) ==
    CASE c = "0" -> 0 [] c = "1" -> 1 [] c = "2" -> 2 [] c = "3" -> 3 [] c = "4" -> 4
      [] c = "5" -> 5 [] c = "6" -> 6 [] c = "7" -> 7 [] c = "8" -> 8 [] c = "9" -> 9

\* the digits of u64::MAX, 18446744073709551615
U64MaxDigits ==
    <<"1", "8", "4", "4", "6", "7", "4", "4", "0", "7", "3", "7", "0", "9", "5", "5", "1",
      "6", "1", "5">>

RECURSIVE StripZeros(_)
StripZeros(body) ==
    IF body # <<>> /\ Head(body) = "0" THEN StripZeros(Tail(body)) ELSE body

\* a <= b for two digit strings of one length
DigitsLeq(a, b) ==
    \/ a = b
    \/ \E i \in 1..Len(a) :
          /\ DigitVal(a[i]) < DigitVal(b[i])
          /\ \A j \in 1..(i - 1) : a[j] = b[j]

\* the number the digits spell is at most u64::MAX (no PosOverflow)
FitsU64(body) ==
    LET d == StripZeros(body)
    IN  \/ Len(d) < Len(U64MaxDigits)
        \/ Len(d) = Len(U64MaxDigits) /\ DigitsLeq(d, U64MaxDigits)

\* str::parse::<u64> is Ok: an optional "+", then at least one digit, digits only,
\* spelling a number that fits 64 bits
ParsesU64(id) ==
    LET body == IF id # <<>> /\ Head(id) = "+" THEN Tail(id) ELSE id
    IN  /\ body # <<>>
        /\ \A i \in 1..Len(body) : body[i] \in Digits
        /\ FitsU64(body)

RECURSIVE DigitsValue(_, _)
DigitsValue(acc, body) ==
    IF body = <<>> THEN acc
    ELSE DigitsValue(acc * 10 + DigitVal(Head(body)), Tail(body))

\* the value of an id that parses (the ids posted here stay far below 2^31)
ParseU64(id) ==
    DigitsValue(0, IF Head(id) = "+" THEN Tail(id) ELSE id)

\* variant: every key is parsed, even the key of a lone entry
SortPanicsMutantAny(orders) == \E i \in 1..Len(orders) : ~ParsesU64(orders[i].id)

\* the comparator of current_orders.sort_by unwraps both parses; a sort of two or
\* more entries compares every entry at least once
SortPanics(orders) ==
    Len(orders) >= 2 /\ \E i \in 1..Len(orders) : ~ParsesU64(orders[i].id)

RECURSIVE InsertById(_, _)
InsertById(sorted, e) ==
    IF sorted = <<>> THEN <<e>>
    ELSE IF ParseU64(Head(sorted).id) <= ParseU64(e.id)
         THEN <<Head(sorted)>> \o InsertById(Tail(sorted), e)
         ELSE <<e>> \o sorted

RECURSIVE SortOrdersFrom(_, _)
SortOrdersFrom(sorted, rest) ==
    IF rest = <<>> THEN sorted
    ELSE SortOrdersFrom(InsertById(sorted, Head(rest)), Tail(rest))

\* variant: the entries stay in the iteration order of the mapping
SortOrdersMutantNoSort(orders) == orders

\* current_orders.sort_by(.. parse::<u64>() ..), stable; no comparison below two entries
SortOrders(orders) ==
    IF Len(orders) < 2 THEN orders ELSE SortOrdersFrom(<<>>, orders)

\* variant: the orders fold also runs on a snapshot without orders
OrdersPresentMutantAlways(msg) == msg.kind = "Packet"

\* if packet.Results.Orders.is_some()
OrdersPresent(msg) == msg.kind = "Packet" /\ msg.hasOrders

\* column k of the rebuilt display columns
Column(orders, k) ==
    [i \in 1..Len(orders) |-> into_spans(SortOrders(orders)[i].order)[k]]

\* the fold panics: a chart "Strategy Equity" without a series "Equity" (unwrap of
\* Series.get), or an order id that does not parse
EquityPanics(msg) == msg.kind = "Packet" /\ msg.charts = "NoEquitySeries"
OrdersPanics(msg) == OrdersPresent(msg) /\ SortPanics(msg.orders)
FoldPanics(msg) == EquityPanics(msg) \/ OrdersPanics(msg)

\* variant: the Stop arm does not set the flag
FinishedAfterMutantNever(msg) == FALSE

\* Message::Stop => finished = true
FinishedAfter(msg) == msg.kind = "Stop"

(***************************************************************************)
(* The tail windows: list.into_iter().rev().take(height as usize - 2)      *)
(* .rev(), and the List widget that draws them inside a bordered Block.    *)
(***************************************************************************)
Min(a, b) == IF a <= b THEN a ELSE b

Reverse(s) == [i \in 1..Len(s) |-> s[Len(s) + 1 - i]]

Take(s, n) == SubSeq(s, 1, Min(n, Len(s)))

\* height as usize - 2 goes below zero
Underflows(height) == height < 2

\* the argument of take for a list of len items: height - 2, or on underflow without
\* overflow checks the wrapped value 2^64 + height - 2, which no list length reaches
TakeCount(height, len) == IF Underflows(height) THEN len ELSE height - 2

TailWindow(items, height) ==
    Reverse(Take(Reverse(items), TakeCount(height, Len(items))))

\* with overflow checks (a debug build) the subtraction panics
DrawPanics(b, hl, ho) == b = "debug" /\ (Underflows(ho) \/ Underflows(hl))

\* f.render_widget(List::new(window).block(Block with Borders::ALL), region): the
\* items are drawn from the first one, one per row inside the borders
Clip(window, height) == Take(window, IF height < 2 THEN 0 ELSE height - 2)

Shown(items, height) == Clip(TailWindow(items, height), height)

(***************************************************************************)
(* State.                                                                  *)
(***************************************************************************)
VARIABLES
    queue,          \* the crossbeam channel: messages sent and not yet received
    sent,           \* history: every message sent, in send order
    folded,         \* history: every message received by the render thread, in order
    logs, equity_data,
    order_times, order_types, order_sides, order_qty, order_symbol,
    finished,       \* the render loop's flag
    renderPc,       \* lock | recv | draw | check | exited | panicked
    draws,          \* frames drawn and flushed to the terminal
    mutex,          \* holder of Mutex<Terminal>: "none", "render" or a caller
    poisoned,       \* the mutex was held by a thread that panicked
    raw, alt, mouse,\* the device: raw mode, alternate screen, mouse capture
    restores,       \* executions of LeaveAlternateScreen / DisableMouseCapture
    postWrote,      \* a post wrote to the terminal (println! of a send error)
    queued,         \* restore commands written to stdout's buffer and not flushed
    handle,         \* the Box<TerminalHandler>: live | freed
    callerPc, callerMsg,
    posts, frees,   \* calls begun
    freeUaf,        \* a free call used the handle after it was deallocated
    postUaf,        \* a post call used the handle after it was deallocated
    alive,          \* the process is running (no crash, no abort)
    frame,          \* the last frame drawn: the items shown in each list, the heights
    build           \* how the library was built: "debug" (overflow checks) | "release"

agg == <<logs, equity_data, order_times, order_types, order_sides, order_qty, order_symbol>>
chan == <<queue, sent>>
device == <<raw, alt, mouse, restores, postWrote, queued>>
render == <<finished, renderPc, draws, folded>>
lock == <<mutex, poisoned>>
calls == <<callerPc, callerMsg, posts, frees>>
ub == <<freeUaf, postUaf, alive>>
view == <<frame, build>>
vars == <<agg, chan, device, render, lock, calls, ub, handle, view>>

Builds == {"debug", "release"}

\* nothing drawn yet
NoFrame ==
    [logs |-> <<>>, times |-> <<>>, types |-> <<>>, sides |-> <<>>, symbol |-> <<>>,
     qty |-> <<>>, log_height |-> 0, orders_height |-> 0]

\* the state initialize() returns in: device in managed mode, render thread spawned
InitBuild(b) ==
    /\ queue = <<>> /\ sent = <<>> /\ folded = <<>>
    /\ logs = <<>> /\ equity_data = <<>>
    /\ order_times = <<>> /\ order_types = <<>> /\ order_sides = <<>>
    /\ order_qty = <<>> /\ order_symbol = <<>>
    /\ finished = FALSE /\ renderPc = "lock" /\ draws = 0
    /\ mutex = "none" /\ poisoned = FALSE
    /\ raw = TRUE /\ alt = TRUE /\ mouse = TRUE /\ restores = 0 /\ postWrote = FALSE
    /\ queued = 0
    /\ handle = "live"
    /\ callerPc = [c \in Callers |-> "idle"]
    /\ callerMsg = [c \in Callers |-> Stop]
    /\ posts = 0 /\ frees = 0
    /\ freeUaf = FALSE /\ postUaf = FALSE /\ alive = TRUE
    /\ frame = NoFrame /\ build = b

Init == InitBuild("release")

(***************************************************************************)
(* The render thread: loop { finished = false; term.lock().unwrap()        *)
(*   .draw(|f| { match rx.recv() {..}; render widgets }).unwrap();         *)
(*   if finished { break } }                                               *)
(***************************************************************************)
RenderLock ==
    /\ alive /\ renderPc = "lock" /\ mutex = "none"
    /\ mutex' = "render" /\ finished' = FALSE /\ renderPc' = "recv"
    /\ UNCHANGED <<agg, view, chan, device, draws, folded, poisoned, calls, ub, handle>>

\* the aggregation state after msg is folded; a panic in the orders sort comes after
\* the equity fold and before the columns are cleared
FoldAgg(msg) ==
    /\ logs' = IF msg.kind = "Log" THEN FoldLog(logs, msg.text, msg.error) ELSE logs
    /\ equity_data' = IF msg.kind = "Packet" /\ msg.charts = "Equity"
                      THEN FoldEquity(equity_data, msg.points) ELSE equity_data
    /\ IF OrdersPresent(msg) /\ ~SortPanics(msg.orders)
       THEN /\ order_times' = Column(msg.orders, 1)
            /\ order_types' = Column(msg.orders, 2)
            /\ order_sides' = Column(msg.orders, 3)
            /\ order_qty' = Column(msg.orders, 4)
            /\ order_symbol' = Column(msg.orders, 5)
       ELSE UNCHANGED <<order_times, order_types, order_sides, order_qty, order_symbol>>

\* tx is a ManuallyDrop field of the TerminalHandler: deallocating the handle does
\* not drop the sender, so the channel is never disconnected
SendersAlive(h) == TRUE

\* rx.recv() inside the draw closure, the mutex held, then the match on the result:
\* recv waits while the channel is empty and a sender is alive; Ok(val) is folded,
\* Err(_) => {} goes on to the widgets with nothing changed
RenderRecv ==
    /\ alive /\ renderPc = "recv" /\ (queue # <<>> \/ ~SendersAlive(handle))
    /\ IF queue # <<>>
       THEN LET msg == Head(queue)
            IN  /\ queue' = Tail(queue)
                /\ folded' = Append(folded, msg)
                /\ IF EquityPanics(msg) THEN UNCHANGED agg ELSE FoldAgg(msg)
                /\ IF FoldPanics(msg)
                   THEN /\ renderPc' = "panicked" /\ mutex' = "none" /\ poisoned' = TRUE
                        /\ UNCHANGED finished
                   ELSE /\ renderPc' = "draw" /\ finished' = FinishedAfter(msg)
                        /\ UNCHANGED lock
       ELSE /\ renderPc' = "draw"
            /\ UNCHANGED <<agg, queue, folded, finished, lock>>
    /\ UNCHANGED <<sent, view, device, draws, calls, ub, handle>>

\* the tail windows of the lists, the widgets rendered in regions of hl rows (log
\* pane) and ho rows (order columns), and Terminal::draw flushes the frame; the guard
\* is dropped.  An underflow of height - 2 panics inside the closure, the mutex held.
RenderDrawAt(hl, ho) ==
    /\ alive /\ renderPc = "draw"
    /\ IF DrawPanics(build, hl, ho)
       THEN /\ renderPc' = "panicked" /\ mutex' = "none" /\ poisoned' = TRUE
            /\ UNCHANGED <<draws, frame>>
       ELSE /\ draws' = draws + 1
            /\ frame' = [logs |-> Shown(logs, hl),
                         times |-> Shown(order_times, ho), types |-> Shown(order_types, ho),
                         sides |-> Shown(order_sides, ho), symbol |-> Shown(order_symbol, ho),
                         qty |-> Shown(order_qty, ho),
                         log_height |-> hl, orders_height |-> ho]
            /\ mutex' = "none" /\ renderPc' = "check"
            /\ UNCHANGED poisoned
    /\ UNCHANGED <<agg, build, chan, device, finished, folded, calls, ub, handle>>

\* a terminal whose regions have all their rows
RenderDraw == RenderDrawAt(MaxHeight, MaxHeight)

\* if finished { break }
RenderCheck ==
    /\ alive /\ renderPc = "check"
    /\ renderPc' = IF finished THEN "exited" ELSE "lock"
    /\ UNCHANGED <<agg, view, chan, device, finished, draws, folded, lock, calls, ub, handle>>

RenderStep == RenderLock \/ RenderRecv \/ RenderDraw \/ RenderCheck

(***************************************************************************)
(* The posts: update, trace, error.  Each takes the Box back from the raw  *)
(* pointer, sends on terminal.tx and forgets the Box.  A caller begins a   *)
(* post only on a handle that no free has deallocated yet.                 *)
(***************************************************************************)
Begin(c, pc, msg) ==
    /\ alive /\ callerPc[c] = "idle" /\ handle = "live" /\ posts < MaxPosts
    /\ callerPc' = [callerPc EXCEPT ![c] = pc]
    /\ callerMsg' = [callerMsg EXCEPT ![c] = msg]
    /\ posts' = posts + 1
    /\ UNCHANGED <<agg, view, chan, device, render, lock, frees, ub, handle>>

\* variant: the receiver is dropped when the render thread ends
ReceiverAliveMutantDropped(pc) == pc \notin {"exited", "panicked"}

\* let rx = ManuallyDrop::new(rx), moved into the render thread's closure: the
\* receiver is not dropped when the thread ends, whatever way it ends
ReceiverAlive(pc) == TRUE

\* a panic in an extern "C" function that owns the Box made by Box::from_raw leaves
\* the function by abort or by unwinding; unwinding drops the Box, which deallocates
\* the TerminalHandler
UnwindDrops(h, survives) == IF survives THEN "freed" ELSE h

\* terminal.tx.send(..) reads the handle; on a deallocated handle the read is
\* undefined: it goes through as if the memory were intact, or the process crashes.
\* The channel is unbounded: send does not block, and it fails only when the receiver
\* has been dropped.  update unwraps the result (a panic, which skips the
\* mem::forget of the Box); trace and error print the error to stdout, the terminal.
Send(c, pc) ==
    /\ alive /\ callerPc[c] = pc
    /\ postUaf' = (postUaf \/ handle = "freed")
    /\ \/ IF ReceiverAlive(renderPc)
          THEN /\ queue' = Append(queue, callerMsg[c])
               /\ sent' = Append(sent, callerMsg[c])
               /\ callerPc' = [callerPc EXCEPT ![c] = "idle"]
               /\ UNCHANGED <<alive, postWrote, handle>>
          ELSE IF pc = "update_send"
               THEN /\ callerPc' = [callerPc EXCEPT ![c] = "panicked"]
                    /\ alive' \in BOOLEAN
                    /\ handle' = UnwindDrops(handle, alive')
                    /\ UNCHANGED <<chan, postWrote>>
               ELSE /\ postWrote' = TRUE
                    /\ callerPc' = [callerPc EXCEPT ![c] = "idle"]
                    /\ UNCHANGED <<chan, alive, handle>>
       \/ /\ handle = "freed"
          /\ callerPc' = [callerPc EXCEPT ![c] = "crashed"]
          /\ alive' = FALSE
          /\ UNCHANGED <<chan, postWrote, handle>>
    /\ UNCHANGED <<agg, view, raw, alt, mouse, restores, queued, render, lock, callerMsg,
                   posts, frees, freeUaf>>

UpdateBegin(c, packet) == Begin(c, "update_send", packet)
UpdateSend(c) == Send(c, "update_send")

TraceBegin(c, text) == Begin(c, "trace_send", Log(text, FALSE))
TraceSend(c) == Send(c, "trace_send")

ErrorBegin(c, text) == Begin(c, "error_send", Log(text, TRUE))
ErrorSend(c) == Send(c, "error_send")

(***************************************************************************)
(* free: Box::from_raw; disable_raw_mode; tx.send(Stop); lock the terminal *)
(* and execute LeaveAlternateScreen, DisableMouseCapture, which locks the  *)
(* terminal a second time.                                                 *)
(***************************************************************************)
\* a step of free that reads the handle: on a deallocated handle it goes through or
\* the process crashes
FreeCrash(c) ==
    /\ handle = "freed"
    /\ callerPc' = [callerPc EXCEPT ![c] = "crashed"]
    /\ alive' = FALSE

\* let terminal = Box::from_raw(handler); disable_raw_mode().unwrap();
FreeDisableRaw(c) ==
    /\ alive /\ callerPc[c] = "idle" /\ frees < MaxFrees
    /\ raw' = FALSE
    /\ callerPc' = [callerPc EXCEPT ![c] = "free_send"]
    /\ frees' = frees + 1
    /\ UNCHANGED <<agg, view, chan, alt, mouse, restores, postWrote, queued, render, lock,
                   callerMsg, posts, ub, handle>>

\* terminal.tx.send(Message::Stop).unwrap();
FreeSend(c) ==
    /\ alive /\ callerPc[c] = "free_send"
    /\ freeUaf' = (freeUaf \/ handle = "freed")
    /\ \/ /\ queue' = Append(queue, Stop)
          /\ sent' = Append(sent, Stop)
          /\ callerPc' = [callerPc EXCEPT ![c] = "free_lock"]
          /\ UNCHANGED alive
       \/ /\ FreeCrash(c)
          /\ UNCHANGED chan
    /\ UNCHANGED <<agg, view, device, render, lock, callerMsg, posts, frees, postUaf, handle>>

\* (*terminal.terminal).lock().unwrap(): waits for the mutex; a poisoned mutex makes
\* unwrap panic, and the panic leaves the extern "C" function by abort or by
\* unwinding, which drops the Box
FreeLock(c) ==
    /\ alive /\ callerPc[c] = "free_lock" /\ mutex = "none"
    /\ freeUaf' = (freeUaf \/ handle = "freed")
    /\ \/ /\ ~poisoned
          /\ mutex' = c
          /\ callerPc' = [callerPc EXCEPT ![c] = "free_execute"]
          /\ UNCHANGED <<alive, handle>>
       \/ /\ poisoned
          /\ callerPc' = [callerPc EXCEPT ![c] = "panicked"]
          /\ alive' \in BOOLEAN
          /\ handle' = UnwindDrops(handle, alive')
          /\ UNCHANGED mutex
       \/ /\ FreeCrash(c)
          /\ UNCHANGED <<mutex, handle>>
    /\ UNCHANGED <<agg, view, chan, device, render, poisoned, callerMsg, posts, frees, postUaf>>

\* variant: the mutex lets the thread that holds it lock it again
RelockBlocksMutantReentrant(holder, c) == FALSE

\* Mutex::lock by the thread that already holds the mutex never returns (std's futex
\* mutex is not reentrant: the thread waits for itself)
RelockBlocks(holder, c) == holder = c

\* execute!(*terminal.lock().unwrap().backend_mut(), LeaveAlternateScreen,
\* DisableMouseCapture).unwrap(): the macro evaluates its writer expression once to
\* queue the commands and once more to flush them.  The first guard lives to the end
\* of the statement, so the commands are written to stdout's buffer under the lock
\* taken by FreeLock and then the second lock() blocks for ever: nothing reaches the
\* terminal, the mutex stays held, the Box is never dropped and free never returns.
\* Were the second lock to return, the flush would restore the device, the guards
\* and then the Box would be dropped (the TerminalHandler deallocated; its
\* ManuallyDrop fields are not dropped) and free would return.
FreeExecute(c) ==
    /\ alive /\ callerPc[c] = "free_execute"
    /\ queued' = queued + 1
    /\ IF RelockBlocks(mutex, c)
       THEN /\ callerPc' = [callerPc EXCEPT ![c] = "free_relock"]
            /\ UNCHANGED <<alt, mouse, restores, mutex, handle>>
       ELSE /\ alt' = FALSE /\ mouse' = FALSE /\ restores' = restores + 1
            /\ mutex' = "none"
            /\ handle' = "freed"
            /\ callerPc' = [callerPc EXCEPT ![c] = "idle"]
    /\ UNCHANGED <<agg, view, chan, raw, postWrote, render, poisoned, callerMsg, posts, frees,
                   ub>>

SendStep(c) == UpdateSend(c) \/ TraceSend(c) \/ ErrorSend(c)
FreeStep(c) == FreeSend(c) \/ FreeLock(c) \/ FreeExecute(c)

(***************************************************************************)
(* The session under concurrent callers, with a small set of payloads.     *)
(***************************************************************************)
GoodPacket == Packet("Equity", << <<1, 10>> >>, FALSE, NoOrders)
BadIdPacket ==
    Packet("None", <<>>, TRUE,
           << [id |-> <<"x">>, order |-> MkOrder(1)], [id |-> <<"1">>, order |-> MkOrder(2)] >>)
LifecyclePackets == {GoodPacket, BadIdPacket}
LifecycleTexts == {<<"a">>}

Next ==
    \/ RenderLock \/ RenderRecv \/ RenderDraw \/ RenderCheck
    \/ \E c \in Callers :
        \/ \E p \in LifecyclePackets : UpdateBegin(c, p)
        \/ \E t \in LifecycleTexts : TraceBegin(c, t) \/ ErrorBegin(c, t)
        \/ UpdateSend(c) \/ TraceSend(c) \/ ErrorSend(c)
        \/ FreeDisableRaw(c)
        \/ FreeSend(c) \/ FreeLock(c) \/ FreeExecute(c)

Spec == Init /\ [][Next]_vars

\* a thread that can take a step is eventually scheduled; nothing makes a caller
\* begin a call
Fairness ==
    /\ WF_vars(RenderStep)
    /\ \A c \in Callers : WF_vars(SendStep(c)) /\ WF_vars(FreeStep(c))

LiveSpec == Init /\ [][Next]_vars /\ Fairness

(***************************************************************************)
(* The fold alone: one caller posts snapshots, each when the render thread *)
(* waits on an empty channel, and the payloads range over every sequence   *)
(* of at most MaxPoints equity points.                                     *)
(***************************************************************************)
PointSet == { <<1, 0>>, <<1, 10>>, <<1, 20>>, <<2, 10>> }

RECURSIVE SeqsUpTo(_, _)
SeqsUpTo(S, n) ==
    IF n = 0 THEN { <<>> }
    ELSE LET shorter == SeqsUpTo(S, n - 1)
         IN  shorter \cup { Append(q, x) : q \in shorter, x \in S }

EquityPackets == { Packet("Equity", pts, FALSE, NoOrders) : pts \in SeqsUpTo(PointSet, MaxPoints) }

FoldPost(c, packet) ==
    /\ queue = <<>> /\ renderPc = "recv"
    /\ UpdateBegin(c, packet)

FoldNext ==
    \/ RenderLock \/ RenderRecv \/ RenderDraw \/ RenderCheck
    \/ \E p \in EquityPackets : FoldPost("c1", p)
    \/ UpdateSend("c1")

FoldSpec == Init /\ [][FoldNext]_vars

(***************************************************************************)
(* The orders fold alone: one caller posts snapshots, each when the render *)
(* thread waits on an empty channel.  An orders mapping is given by the    *)
(* sequence of its entries in iteration order: at most MaxOrders entries   *)
(* with distinct keys.  "2", "02" and "10" parse; "x" and 2^64 do not.     *)
(***************************************************************************)
\* 18446744073709551616, one above u64::MAX
TwoPow64 ==
    <<"1", "8", "4", "4", "6", "7", "4", "4", "0", "7", "3", "7", "0", "9", "5", "5", "1",
      "6", "1", "6">>

OrderKeys == { <<"2">>, <<"0", "2">>, <<"1", "0">>, <<"x">>, TwoPow64 }

Entry(key) == [id |-> key, order |-> MkOrder(key)]

OrderMaps ==
    { [i \in 1..Len(ks) |-> Entry(ks[i])] :
        ks \in { q \in SeqsUpTo(OrderKeys, MaxOrders) :
                    \A i, j \in 1..Len(q) : i # j => q[i] # q[j] } }

OrdersPackets ==
    { Packet("None", <<>>, TRUE, m) : m \in OrderMaps }
      \cup { Packet("Equity", pts, FALSE, NoOrders) : pts \in { <<>>, << <<1, 10>> >> } }

OrdersNext ==
    \/ RenderLock \/ RenderRecv \/ RenderDraw \/ RenderCheck
    \/ \E p \in OrdersPackets : FoldPost("c1", p)
    \/ UpdateSend("c1")

OrdersSpec == Init /\ [][OrdersNext]_vars

(***************************************************************************)
(* The log fold alone: one caller posts log lines and error lines, each    *)
(* when the render thread waits on an empty channel.  The texts are every  *)
(* sequence of at most MaxText characters over "a" and "\n", and some      *)
(* texts with a carriage return.                                           *)
(***************************************************************************)
CrTexts == { <<"a", "\r", "\n", "a">>, <<"a", "\r">>, <<"\r", "\n">>, <<"\r", "a", "\n">> }

LogTexts == SeqsUpTo({"a", "\n"}, MaxText) \cup CrTexts

LogPost(c, text, error) ==
    /\ queue = <<>> /\ renderPc = "recv"
    /\ IF error THEN ErrorBegin(c, text) ELSE TraceBegin(c, text)

LogNext ==
    \/ RenderLock \/ RenderRecv \/ RenderDraw \/ RenderCheck
    \/ \E t \in LogTexts : LogPost("c1", t, FALSE) \/ LogPost("c1", t, TRUE)
    \/ TraceSend("c1") \/ ErrorSend("c1")

LogSpec == Init /\ [][LogNext]_vars

(***************************************************************************)
(* The display: one caller posts a text of three lines or a snapshot of    *)
(* three orders, each when the render thread waits on an empty channel;    *)
(* the terminal is resized between frames, so that every frame finds the   *)
(* log pane and the order columns with any number of rows up to MaxHeight; *)
(* the library is a debug build or a release build.                        *)
(***************************************************************************)
Heights == 0..MaxHeight

ViewText == <<"a", "\n", "b", "\n", "c">>
ViewOrders == << Entry(<<"3">>), Entry(<<"1">>), Entry(<<"2">>) >>
ViewPackets == { Packet("None", <<>>, TRUE, ViewOrders) }

ViewInit == \E b \in Builds : InitBuild(b)

ViewNext ==
    \/ RenderLock \/ RenderRecv \/ RenderCheck
    \/ \E hl, ho \in Heights : RenderDrawAt(hl, ho)
    \/ \E p \in ViewPackets : FoldPost("c1", p)
    \/ LogPost("c1", ViewText, FALSE)
    \/ UpdateSend("c1") \/ TraceSend("c1")

ViewSpec == ViewInit /\ [][ViewNext]_vars

(***************************************************************************)
(* Properties.                                                             *)
(***************************************************************************)
IsPrefix(s, t) == Len(s) <= Len(t) /\ \A i \in 1..Len(s) : s[i] = t[i]

Normal == ~raw /\ ~alt /\ ~mouse
InFree(c) == callerPc[c] \in {"free_send", "free_lock", "free_execute", "free_relock"}
HasStop(s) == \E i \in 1..Len(s) : s[i].kind = "Stop"
FirstStop(s) == CHOOSE i \in 1..Len(s) : s[i].kind = "Stop" /\ \A j \in 1..(i - 1) : s[j].kind # "Stop"

\* C1: the render task never draws a frame once a restoration step (disable raw mode,
\* leave alternate screen, disable mouse capture) has been performed on the device.
C1_NoDrawAfterRestore ==
    [][draws' # draws => raw /\ alt /\ mouse]_vars

\* C2: when free is called twice on one session, both calls come to an end without
\* using the session handle after it has been destroyed, the device has been restored
\* exactly once and is neither in raw mode nor in the alternate screen.  Stated for
\* the sessions whose render thread does not panic.
C2_DoubleStopSafe ==
    (frees >= 2) ~>
        (poisoned \/ (/\ \A c \in Callers : ~InFree(c)
                      /\ Normal /\ restores = 1 /\ ~freeUaf))

\* C3: no post call (update, trace, error) in flight while free runs reads the session
\* handle or its sender after free has deallocated the handle.
C3_NoPostUseAfterFree ==
    ~postUaf

\* C3 witness: a post was begun and has sent its event while a call of free was
\* running, past its send of Stop.
C3_Witness ==
    /\ \E c \in Callers : callerPc[c] \in {"free_lock", "free_execute", "free_relock"}
    /\ Len(sent) = 2 /\ sent[1].kind = "Stop" /\ sent[2].kind = "Log"
    /\ handle = "live"

\* C4: after a single free, whatever was posted before it, once the call is over the
\* device is in the Normal state: raw mode off, alternate screen left, mouse capture off.
C4_NormalAfterStop ==
    (frees = 1 /\ \A c \in Callers : ~InFree(c)) => Normal

\* C5: the render task receives events in the order they were enqueued, and once it has
\* left its loop every event enqueued before the Stop has been received and folded.
C5_FifoUntilStop ==
    /\ IsPrefix(folded, sent)
    /\ (renderPc \in {"exited", "panicked"} /\ HasStop(sent))
          => Len(folded) >= FirstStop(sent) - 1

\* C6: dequeuing Stop leaves logs, equity and the five order columns unchanged and sets
\* the flag that ends the loop, and nothing is folded after a Stop.
C6_StopEndsFold ==
    /\ [][(folded' # folded /\ Head(queue).kind = "Stop") => (agg' = agg /\ finished')]_vars
    /\ [](\A i \in 1..Len(folded) : folded[i].kind = "Stop" => i = Len(folded))

\* C6 witness: the loop has ended on a Stop with folded events before it and an event
\* still in the queue behind it.
C6_Witness ==
    /\ renderPc = "exited" /\ queue # <<>>
    /\ Len(folded) >= 2 /\ folded[Len(folded)].kind = "Stop"
    /\ equity_data # <<>>

\* C7: once free has been called, the render task eventually leaves its loop and the
\* free call eventually returns (it deallocates the handle as it returns).  Stated for
\* a session with one call of free whose render thread does not panic: a second call
\* of free, or a poisoned mutex, ends the obligation.
C7_StopTerminates ==
    (frees > 0) ~> (frees >= 2 \/ poisoned \/ (renderPc = "exited" /\ handle = "freed"))

\* C8: after each fold, equity holds no two elements with identical (time, value).
C8_NoDuplicatePoints ==
    \A i, j \in 1..Len(equity_data) : i # j => equity_data[i] # equity_data[j]

\* C9: after each fold, equity is sorted in non-decreasing order of time.
C9_SortedByTime ==
    \A i, j \in 1..Len(equity_data) : i < j => equity_data[i][1] <= equity_data[j][1]

\* C9 witness: a snapshot whose points came in descending time order has been folded
\* into an equity sequence that spans two times.
C9_Witness ==
    /\ \E k \in 1..Len(folded) :
          Len(folded[k].points) >= 2 /\ folded[k].points[1][1] > folded[k].points[2][1]
          /\ folded[k].points[1][2] > 0 /\ folded[k].points[2][2] > 0
    /\ Len(equity_data) >= 2
    /\ equity_data[1][1] < equity_data[Len(equity_data)][1]

\* C10: every element of equity has a value strictly greater than 0, however often
\* points with a value of 0 or less are sent.
C10_PositiveValues ==
    \A i \in 1..Len(equity_data) : equity_data[i][2] > 0

\* C10 witness: the same point of value 0 has been folded twice, next to points that
\* were kept.
C10_Witness ==
    /\ Len(folded) >= 2
    /\ \A k \in 1..2 : \E i \in 1..Len(folded[k].points) : folded[k].points[i] = <<1, 0>>
    /\ equity_data # <<>>

Range(s) == { s[i] : i \in 1..Len(s) }

\* the points of value greater than 0 carried by the snapshots received so far
PositiveReceived ==
    { p \in UNION { Range(folded[k].points) : k \in 1..Len(folded) } : p[2] > 0 }

\* C11: equity is a merge: across every step its length does not decrease and every
\* point it held is still in it, and its set of points is the union of all received
\* points whose value is greater than 0.
C11_EquityMerges ==
    /\ [][/\ Len(equity_data') >= Len(equity_data)
          /\ \A i \in 1..Len(equity_data) : equity_data[i] \in Range(equity_data')]_vars
    /\ [](Range(equity_data) = PositiveReceived)

\* C11 witness: two snapshots with different kept points have been folded and equity
\* holds the points of both.
C11_Witness ==
    /\ Len(folded) = 2
    /\ folded[1].points = << <<2, 10>> >>
    /\ folded[2].points = << <<1, 20>>, <<1, 0>> >>
    /\ equity_data = << <<1, 20>>, <<2, 10>> >>

columns == <<order_times, order_types, order_sides, order_qty, order_symbol>>
LastFolded == folded[Len(folded)]
Receives == Len(folded') = Len(folded) + 1

\* C12: folding a snapshot that carries no orders payload leaves all five order
\* columns exactly as they were before the fold, whatever its equity points are.
C12_NoOrdersKeepsColumns ==
    [][(Receives /\ LastFolded'.kind = "Packet" /\ ~LastFolded'.hasOrders)
          => columns' = columns]_vars

\* C12 witness: a snapshot without orders and with an equity point has been folded
\* while the columns held two orders.
C12_Witness ==
    /\ Len(folded) = 2
    /\ ~LastFolded.hasOrders /\ LastFolded.points = << <<1, 10>> >>
    /\ equity_data = << <<1, 10>> >>
    /\ Len(order_times) = 2

FoldsOrders == Receives /\ LastFolded'.kind = "Packet" /\ LastFolded'.hasOrders

\* row i of the five columns, and the rows of a payload in some order
Row(i) == <<order_times[i], order_types[i], order_sides[i], order_qty[i], order_symbol[i]>>
RowsOf(orders) == { into_spans(orders[j].order) : j \in 1..Len(orders) }

AlignedColumns ==
    /\ Len(order_types) = Len(order_times) /\ Len(order_sides) = Len(order_times)
    /\ Len(order_qty) = Len(order_times) /\ Len(order_symbol) = Len(order_times)
    /\ \A i \in 1..Len(order_times) : Row(i) = into_spans(MkOrder(order_times[i][2]))

\* C13: folding a snapshot that carries an orders payload discards every previous
\* column entry and rebuilds the columns from that payload alone (an empty mapping
\* empties them); in every reachable state the five columns have equal length and
\* index i of each column describes the same order.
C13_OrdersReplaceColumns ==
    /\ [][FoldsOrders =>
            /\ Len(order_times') = Len(LastFolded'.orders)
            /\ { Row(i)' : i \in 1..Len(order_times') } = RowsOf(LastFolded'.orders)]_vars
    /\ []AlignedColumns

AllParse(orders) == \A j \in 1..Len(orders) : ParsesU64(orders[j].id)
DistinctIds(orders) ==
    \A i, j \in 1..Len(orders) : i # j => ParseU64(orders[i].id) # ParseU64(orders[j].id)
SameMapping(m, orders) == Len(m) = Len(orders) /\ Range(m) = Range(orders)
RowId(i) == order_times[i][2]

\* C14 as stated: after folding a snapshot whose orders mapping has keys that all
\* parse as unsigned integers, the rows are ascending by numeric id and are the same
\* whatever the iteration order of the mapping is.
C14_AscendingAnyKeys ==
    [][(FoldsOrders /\ AllParse(LastFolded'.orders)) =>
          /\ \A i, j \in 1..Len(order_times') :
                i < j => ParseU64(RowId(i)') <= ParseU64(RowId(j)')
          /\ \A m \in OrderMaps :
                SameMapping(m, LastFolded'.orders) =>
                    columns' = <<Column(m, 1), Column(m, 2), Column(m, 3), Column(m, 4),
                                 Column(m, 5)>>]_vars

\* C14 amended: after folding a snapshot whose orders mapping has keys that all parse
\* as unsigned integers of pairwise distinct values, row i of the columns is the
\* order with the i-th smallest numeric id, whatever the iteration order of the
\* mapping is.
C14_AscendingDistinctIds ==
    [][(FoldsOrders /\ AllParse(LastFolded'.orders) /\ DistinctIds(LastFolded'.orders)) =>
          /\ Len(order_times') = Len(LastFolded'.orders)
          /\ \A i \in 1..Len(order_times') :
                \E j \in 1..Len(LastFolded'.orders) :
                    /\ Row(i)' = into_spans(LastFolded'.orders[j].order)
                    /\ RowId(i)' = LastFolded'.orders[j].id
                    /\ Cardinality({ k \in 1..Len(LastFolded'.orders) :
                           ParseU64(LastFolded'.orders[k].id) < ParseU64(RowId(i)') }) = i - 1]_vars

\* C14 witness: the mapping iterated "10" then "2" has been folded and the rows are
\* the order "2" then the order "10".
C14_Witness ==
    /\ folded # <<>>
    /\ LastFolded.orders = << Entry(<<"1", "0">>), Entry(<<"2">>) >>
    /\ order_times = << <<"time", <<"2">>>>, <<"time", <<"1", "0">>>> >>
    /\ order_symbol = << <<"symbol", <<"2">>>>, <<"symbol", <<"1", "0">>>> >>

HasBadId(msg) == OrdersPresent(msg) /\ ~AllParse(msg.orders)

\* C15: a snapshot containing an order whose id does not parse as an unsigned integer
\* does not end the session: after it has been received the render task is still
\* alive (it has not left its loop by a panic).
C15_BadIdContained ==
    (\E k \in 1..Len(folded) : HasBadId(folded[k])) => renderPc # "panicked"

PostPcs == {"update_send", "trace_send", "error_send"}

\* the step completes (or ends) the post of caller c
PostStepOf(c) == callerPc[c] \in PostPcs /\ callerPc'[c] # callerPc[c]

\* the step begins a post of caller c
PostBeginOf(c) == callerPc[c] = "idle" /\ callerPc'[c] \in PostPcs

\* C16: a post (update, trace, error) never blocks its caller, and a post made after
\* the render task has left its loop, on Stop or by a panic, neither panics nor
\* deadlocks nor reports an error: the event is enqueued or dropped and is never
\* folded or rendered.
C16_PostAfterExitSafe ==
    /\ [](\A c \in Callers : (alive /\ callerPc[c] \in PostPcs) => ENABLED SendStep(c))
    /\ [][\A c \in Callers :
            (PostStepOf(c) /\ renderPc \in {"exited", "panicked"}) =>
                /\ callerPc'[c] = "idle" /\ alive' /\ ~postWrote'
                /\ folded' = folded /\ draws' = draws]_vars
    /\ [](renderPc \in {"exited", "panicked"} =>
            queue = SubSeq(sent, Len(folded) + 1, Len(sent)))

\* C17: the post operations (update, trace, error) never lock, read or write the
\* terminal device, and between Start and Stop (while no free has been called) the
\* only thread that holds the terminal or changes the device is the render task.
C17_PostsLeaveDevice ==
    /\ [][\A c \in Callers :
            (PostBeginOf(c) \/ PostStepOf(c)) => UNCHANGED <<device, lock, draws>>]_vars
    /\ [](~postWrote /\ \A c \in Callers : callerPc[c] \in PostPcs => mutex # c)
    /\ [](frees = 0 => raw /\ alt /\ mouse /\ restores = 0 /\ mutex \in {"none", "render"})

\* C17 witness: a log line and a snapshot have been posted and drawn before any free,
\* and a log line has been posted after the render task left its loop.
C17_Witness ==
    /\ renderPc = "exited" /\ draws >= 2
    /\ Len(sent) = 3 /\ sent[1].kind = "Packet" /\ sent[2].kind = "Stop" /\ sent[3].kind = "Log"
    /\ queue = << sent[3] >>
    /\ ~postWrote

\* the lines of a text, by the places of its line feeds: line k runs from after the
\* (k-1)-th line feed to before the k-th one (or to the end of the text, for a last
\* line that no line feed ends), less a carriage return directly before the line feed
Newlines(text) == { i \in 1..Len(text) : text[i] = "\n" }
NthNewline(text, k) ==
    IF k = 0 THEN 0
    ELSE CHOOSE p \in Newlines(text) : Cardinality({ q \in Newlines(text) : q <= p }) = k
LineCount(text) ==
    Cardinality(Newlines(text))
      + (IF text # <<>> /\ text[Len(text)] # "\n" THEN 1 ELSE 0)
LineOf(text, k) ==
    LET first == NthNewline(text, k - 1) + 1
        ended == k <= Cardinality(Newlines(text))
        last  == IF ended THEN NthNewline(text, k) - 1 ELSE Len(text)
    IN  IF ended /\ last >= first /\ text[last] = "\r"
        THEN SubSeq(text, first, last - 1)
        ELSE SubSeq(text, first, last)

\* C18: folding a LogLine appends one entry per line of its text, in text order and
\* each tagged with the event's error flag, to the end of logs; logs is append-only:
\* the logs before any step are a prefix of the logs after it.
C18_LogAppends ==
    /\ [][(Receives /\ LastFolded'.kind = "Log") =>
            /\ Len(logs') = Len(logs) + LineCount(LastFolded'.text)
            /\ \A k \in 1..LineCount(LastFolded'.text) :
                  logs'[Len(logs) + k] =
                      [line |-> LineOf(LastFolded'.text, k), error |-> LastFolded'.error]]_vars
    /\ [][IsPrefix(logs, logs')]_vars

\* C18 witness: an error text of two lines has been folded after a plain line, and
\* logs holds the three entries in order.
C18_Witness ==
    /\ Len(folded) = 2
    /\ folded[1] = Log(<<"a">>, FALSE)
    /\ folded[2] = Log(<<"a", "\r", "\n", "a">>, TRUE)
    /\ logs = << [line |-> <<"a">>, error |-> FALSE], [line |-> <<"a">>, error |-> TRUE],
                 [line |-> <<"a">>, error |-> TRUE] >>

\* the last n items of s, in their order (none for n <= 0)
LastN(s, n) == IF n <= 0 THEN <<>> ELSE SubSeq(s, Len(s) - n + 1, Len(s))

\* the frame shows, of each list, the last min(region height - 2, length) items
FrameIsTails ==
    /\ frame.logs = LastN(logs, Min(frame.log_height - 2, Len(logs)))
    /\ frame.times = LastN(order_times, Min(frame.orders_height - 2, Len(order_times)))
    /\ frame.types = LastN(order_types, Min(frame.orders_height - 2, Len(order_types)))
    /\ frame.sides = LastN(order_sides, Min(frame.orders_height - 2, Len(order_sides)))
    /\ frame.qty = LastN(order_qty, Min(frame.orders_height - 2, Len(order_qty)))
    /\ frame.symbol = LastN(order_symbol, Min(frame.orders_height - 2, Len(order_symbol)))
    /\ \A i \in 1..Len(frame.times) :
          frame.times[i][2] = frame.types[i][2] /\ frame.times[i][2] = frame.sides[i][2]
          /\ frame.times[i][2] = frame.qty[i][2] /\ frame.times[i][2] = frame.symbol[i][2]

\* C19: for the log pane and for each of the five order columns, the displayed items
\* are exactly the last min(region_height - 2, total_length) items of the underlying
\* sequence in their original order, and the five columns display the same index
\* range: every rendering of the widgets ends with such a frame on the terminal.
C19_TailWindows ==
    [][(renderPc = "draw" /\ renderPc' # "draw") =>
          (renderPc' = "check" /\ FrameIsTails')]_vars

\* C20: in the render loop of initialize, the iteration that dequeues Stop performs
\* no device I/O: no frame is drawn or flushed to the terminal after Stop has been
\* dequeued.
C20_NoDrawAfterStopDequeued ==
    [][draws' # draws => ~finished]_vars

\* C21: the render task draws exactly one frame per consumed event and none
\* otherwise: outside the span between a dequeue and its draw, the number of
\* completed draws equals the number of events dequeued (so no frame is drawn before
\* the first event, and a burst of k events gets k draws).
C21_OneDrawPerEvent ==
    renderPc # "draw" => draws = Len(folded)

\* the step ends the render loop: by the break, or by a panic that unwinds out of it
LeavesLoop ==
    renderPc \notin {"exited", "panicked"} /\ renderPc' \in {"exited", "panicked"}

\* the step is a receive that failed: the render thread goes on from rx.recv()
\* without having dequeued anything
FailedReceive == renderPc = "recv" /\ renderPc' # "recv" /\ folded' = folded

\* C24: the render loop leaves only in an iteration that dequeued Stop, and a failed
\* receive never sets the finished flag and changes no aggregation state: the loop
\* goes on to draw and to its next iteration.
C24_LeavesOnlyOnStop ==
    /\ [][LeavesLoop => (folded' # <<>> /\ LastFolded'.kind = "Stop")]_vars
    /\ [][FailedReceive => (~finished' /\ agg' = agg /\ renderPc' = "draw")]_vars

\* C22: the render pass does not abort for any terminal size: also when the log
\* region or the order columns' region has height 0 or 1, the rendering of the
\* widgets does not panic and the frame is drawn.
C22_NoAbortForAnySize ==
    [][(renderPc = "draw" /\ renderPc' # "draw") =>
          (renderPc' = "check" /\ draws' = draws + 1)]_vars

FoldsBadId == FoldsOrders /\ HasBadId(LastFolded')
FoldAborts == renderPc' = "panicked" /\ columns' = columns

\* C23 as stated: for every snapshot whose orders mapping contains at least one id
\* that does not parse as an unsigned integer, whatever the number of entries (a
\* single entry included), the fold step aborts and none of the five order columns
\* is modified.
C23_BadIdAbortsAnySize ==
    [][FoldsBadId => FoldAborts]_vars

\* C23 amended: for every snapshot whose orders mapping has two or more entries and
\* contains at least one id that does not parse as an unsigned integer, the fold step
\* aborts and none of the five order columns is modified; a mapping of a single entry
\* is folded whatever its id is: the columns are rebuilt to hold that one order.
C23_BadIdAbortsFromTwo ==
    [][FoldsBadId =>
          IF Len(LastFolded'.orders) >= 2 THEN FoldAborts
          ELSE /\ renderPc' = "draw"
               /\ order_times' = << into_spans(LastFolded'.orders[1].order)[1] >>
               /\ Len(order_symbol') = 1]_vars

\* C23 witness: the columns held two orders, a snapshot of two entries with the key
\* "x" was received, the render thread has panicked and the columns are as before.
C23_Witness ==
    /\ Len(folded) = 2 /\ renderPc = "panicked"
    /\ folded[1].orders = << Entry(<<"1", "0">>), Entry(<<"2">>) >>
    /\ folded[2].orders = << Entry(<<"2">>), Entry(<<"x">>) >>
    /\ order_times = << <<"time", <<"2">>>>, <<"time", <<"1", "0">>>> >>
====
